---- MODULE Spec2Model ----
(***************************************************************************)
(* Graph assembly and transform composition in nibabies.                   *)
(*                                                                         *)
(* A run of the model is one call of one entry point: a workflow builder   *)
(* (init_coregistration_wf, init_coregister_derivatives_wf,                *)
(* init_concat_registrations_wf, init_infant_brain_extraction_wf) or the   *)
(* ConcatXFM interface formatting its transforms argument.  The builders   *)
(* advance one workflow.connect([...]) call (with the pe.Node creations    *)
(* that precede it) per step.  An edge is <<src, srcport, dst, dstport>>;  *)
(* edges is the list of edges in connection order, nodes is the set of     *)
(* nodes the workflow graph holds (connect adds both ends of every edge).  *)
(***************************************************************************)
EXTENDS Integers, Sequences, FiniteSets, TLC

VARIABLES
    wf,                      \* entry point being run
    pc,                      \* position inside the entry point
    t1w_mask, probmap,       \* flags of init_coregistration_wf / derivatives
    t1w_aseg, t2w_aseg,      \* flags of init_coregister_derivatives_wf
    inputnode, outputnode,   \* fields declared on the IdentityInterface nodes
    nodes, edges,            \* the workflow graph
    transforms,              \* ConcatXFM.inputs.transforms
    invert_transform_flags,  \* ConcatXFM.inputs.invert_transform_flags
    retval, raised,          \* outcome of _get_transform_filenames
    templates,               \* argument of init_concat_registrations_wf
    age_months, ants_affine_init, sloppy, skull_strip_template,
                             \* arguments of init_infant_brain_extraction_wf
    caller_specs,            \* the template_specs object the caller holds
    template_specs,          \* the builder's local template_specs
    aliased,                 \* the local name is bound to the caller's object
    error,                   \* exception a builder left with ("" for none)
    given_specs,             \* template_specs as the caller passed it
    use_aseg, use_mask, precomputed,
                             \* arguments of the surface reconstruction builders
    bare,                    \* objects of the graph that are bare interfaces,
                             \* never wrapped in pe.Node
    call,                    \* 1 for the first call of the builder, 2 for the
                             \* repeat with the same arguments
    prev_nodes, prev_edges,  \* the graph the first call returned
    outs,                    \* run of the graph: outputs of the nodes that ran
    failed,                  \* run of the graph: nodes that failed
    running,                 \* run of the graph: nodes started and not yet finished
    node_inputs,             \* inputs the builder set on a node: <<node, port, value>>
    t1w2t2w_xfm              \* the transforms the caller sends to
                             \* init_coregister_derivatives_wf's inputnode.t1w2t2w_xfm

vars == <<wf, pc, t1w_mask, probmap, t1w_aseg, t2w_aseg, inputnode, outputnode,
          nodes, edges, transforms, invert_transform_flags, retval, raised,
          templates, age_months, ants_affine_init, sloppy, skull_strip_template,
          caller_specs, template_specs, aliased, error, given_specs,
          use_aseg, use_mask, precomputed, bare, call, prev_nodes, prev_edges,
          outs, failed, running, node_inputs, t1w2t2w_xfm>>

bexArgs == <<age_months, ants_affine_init, sloppy, skull_strip_template, given_specs>>
surfArgs == <<use_aseg, use_mask, precomputed>>
specVars == <<caller_specs, template_specs, aliased>>
argVars == <<t1w_mask, probmap, t1w_aseg, t2w_aseg, templates, bexArgs, surfArgs, t1w2t2w_xfm>>
callVars == <<call, prev_nodes, prev_edges>>
runVars == <<outs, failed, running>>
restVars == <<bare, node_inputs, callVars, runVars>>
xfmVars == <<transforms, invert_transform_flags, retval, raised>>

(***************************************************************************)
(* Bounds                                                                  *)
(***************************************************************************)
MaxXfms == 2
MaxTemplates == 3
MaxAge == 2

(***************************************************************************)
(* Edges                                                                   *)
(***************************************************************************)
Src(e) == e[1]
SrcPort(e) == e[2]
Dst(e) == e[3]
DstPort(e) == e[4]

Range(s) == {s[i] : i \in 1..Len(s)}

\* workflow.connect(connection_list): every edge is appended, both of its
\* end nodes become nodes of the graph
ConnectNodes(g, es) == g \cup {Src(e) : e \in Range(es)} \cup {Dst(e) : e \in Range(es)}
ConnectEdges(g, es) == g \o es

(***************************************************************************)
(* init_coregistration_wf                                                  *)
(***************************************************************************)
CoregInputFields == {"in_t1w", "in_t2w", "in_mask", "in_probmap"}
CoregOutputFields ==
    {"t1w_preproc", "t1w_brain", "t1w_mask", "t1w2t2w_xfm", "t2w2t1w_xfm", "t2w_preproc"}

CoregCommonEdges == <<
    <<"inputnode", "in_t1w", "final_n4", "input_image">>,
    <<"inputnode", "in_t1w", "coreg", "moving_image">>,
    <<"inputnode", "in_t2w", "coreg", "fixed_image">>,
    <<"reg_mask", "out_file", "fixed_masks_arg", "in1">>,
    <<"reg_mask", "out_file", "fixed_masks_arg", "in2">>,
    <<"refine_mask", "out_file", "fixed_masks_arg", "in3">>,
    <<"inputnode", "in_t1w", "map_t2w", "reference_image">>,
    <<"inputnode", "in_t2w", "map_t2w", "input_image">>,
    <<"fixed_masks_arg", "out", "coreg", "fixed_image_masks">>,
    <<"coreg", "reverse_transforms", "map_t2w", "transforms">>,
    <<"coreg", "reverse_invert_flags", "map_t2w", "invert_transform_flags">>,
    <<"final_n4", "output_image", "apply_mask", "in_file">>,
    <<"final_n4", "output_image", "outputnode", "t1w_preproc">>,
    <<"map_t2w", "output_image", "outputnode", "t2w_preproc">>,
    <<"apply_mask", "out_file", "outputnode", "t1w_brain">>,
    <<"coreg", "forward_transforms", "outputnode", "t1w2t2w_xfm">>,
    <<"coreg", "reverse_transforms", "outputnode", "t2w2t1w_xfm">> >>

\* the t1w_mask branch without its link to outputnode.t1w_mask
CoregT1wMaskEdges_noOutput == <<
    <<"inputnode", "in_t2w", "t2w_masker", "in_file">>,
    <<"t2w_masker", "out_mask", "reg_mask", "in_file">>,
    <<"t2w_masker", "out_mask", "refine_mask", "in_file">>,
    <<"inputnode", "in_mask", "apply_mask", "in_mask">> >>

CoregT1wMaskEdges == <<
    <<"inputnode", "in_t2w", "t2w_masker", "in_file">>,
    <<"t2w_masker", "out_mask", "reg_mask", "in_file">>,
    <<"t2w_masker", "out_mask", "refine_mask", "in_file">>,
    <<"inputnode", "in_mask", "apply_mask", "in_mask">>,
    <<"inputnode", "in_mask", "outputnode", "t1w_mask">> >>

\* thr_mask thresholding the probability map of the input, not the mapped one
CoregProbmapEdges_thrFromInput == <<
    <<"inputnode", "in_mask", "reg_mask", "in_file">>,
    <<"inputnode", "in_mask", "refine_mask", "in_file">>,
    <<"inputnode", "in_t1w", "map_mask", "reference_image">>,
    <<"inputnode", "in_probmap", "map_mask", "input_image">>,
    <<"coreg", "reverse_transforms", "map_mask", "transforms">>,
    <<"coreg", "reverse_invert_flags", "map_mask", "invert_transform_flags">>,
    <<"inputnode", "in_probmap", "thr_mask", "in_file">>,
    <<"map_mask", "output_image", "final_n4", "weight_image">>,
    <<"thr_mask", "out_mask", "outputnode", "t1w_mask">>,
    <<"thr_mask", "out_mask", "apply_mask", "in_mask">> >>

CoregProbmapEdges == <<
    <<"inputnode", "in_mask", "reg_mask", "in_file">>,
    <<"inputnode", "in_mask", "refine_mask", "in_file">>,
    <<"inputnode", "in_t1w", "map_mask", "reference_image">>,
    <<"inputnode", "in_probmap", "map_mask", "input_image">>,
    <<"coreg", "reverse_transforms", "map_mask", "transforms">>,
    <<"coreg", "reverse_invert_flags", "map_mask", "invert_transform_flags">>,
    <<"map_mask", "output_image", "thr_mask", "in_file">>,
    <<"map_mask", "output_image", "final_n4", "weight_image">>,
    <<"thr_mask", "out_mask", "outputnode", "t1w_mask">>,
    <<"thr_mask", "out_mask", "apply_mask", "in_mask">> >>

\* the fallback without the weight image of final_n4
CoregPrecompEdges_noWeight == <<
    <<"inputnode", "in_mask", "reg_mask", "in_file">>,
    <<"inputnode", "in_mask", "refine_mask", "in_file">>,
    <<"inputnode", "in_t1w", "map_precomp_mask", "reference_image">>,
    <<"inputnode", "in_mask", "map_precomp_mask", "input_image">>,
    <<"coreg", "reverse_transforms", "map_precomp_mask", "transforms">>,
    <<"coreg", "reverse_invert_flags", "map_precomp_mask", "invert_transform_flags">>,
    <<"map_precomp_mask", "output_image", "outputnode", "t1w_mask">>,
    <<"map_precomp_mask", "output_image", "apply_mask", "in_mask">> >>

CoregPrecompEdges == <<
    <<"inputnode", "in_mask", "reg_mask", "in_file">>,
    <<"inputnode", "in_mask", "refine_mask", "in_file">>,
    <<"inputnode", "in_t1w", "map_precomp_mask", "reference_image">>,
    <<"inputnode", "in_mask", "map_precomp_mask", "input_image">>,
    <<"coreg", "reverse_transforms", "map_precomp_mask", "transforms">>,
    <<"coreg", "reverse_invert_flags", "map_precomp_mask", "invert_transform_flags">>,
    <<"map_precomp_mask", "output_image", "final_n4", "weight_image">>,
    <<"map_precomp_mask", "output_image", "outputnode", "t1w_mask">>,
    <<"map_precomp_mask", "output_image", "apply_mask", "in_mask">> >>

\* a missing `return workflow` at line 233: the probmap branch runs on into
\* the fallback
CoregBranchEdges_noReturn(branch) ==
    CASE branch = "t1w_mask" -> CoregT1wMaskEdges
      [] branch = "probmap" -> CoregProbmapEdges \o CoregPrecompEdges
      [] branch = "precomp" -> CoregPrecompEdges

\* the connection list of each mask branch (lines 203-209, 218-231, 240-252)
CoregBranchEdges(branch) ==
    CASE branch = "t1w_mask" -> CoregT1wMaskEdges
      [] branch = "probmap" -> CoregProbmapEdges
      [] branch = "precomp" -> CoregPrecompEdges

\* probmap tested before t1w_mask
CoregBranch_probmapFirst(mask, prob) ==
    IF prob THEN "probmap"
    ELSE IF mask THEN "t1w_mask"
    ELSE "precomp"

\* lines 196, 213, 235: the mask branch the flags select
CoregBranch(mask, prob) ==
    IF mask THEN "t1w_mask"
    ELSE IF prob THEN "probmap"
    ELSE "precomp"

\* lines 114-194: the nodes shared by every configuration and their wiring
CoregCommon ==
    /\ wf = "init_coregistration_wf" /\ pc = "start"
    /\ inputnode' = CoregInputFields
    /\ outputnode' = CoregOutputFields
    /\ nodes' = ConnectNodes(nodes, CoregCommonEdges)
    /\ edges' = ConnectEdges(edges, CoregCommonEdges)
    /\ pc' = "branch"
    /\ UNCHANGED <<wf, argVars, restVars, error, xfmVars, specVars>>

\* lines 196-211: if t1w_mask: ... return workflow
CoregT1wMask ==
    /\ wf = "init_coregistration_wf" /\ pc = "branch"
    /\ CoregBranch(t1w_mask, probmap) = "t1w_mask"
    /\ nodes' = ConnectNodes(nodes, CoregBranchEdges("t1w_mask"))
    /\ edges' = ConnectEdges(edges, CoregBranchEdges("t1w_mask"))
    /\ pc' = "done"
    /\ UNCHANGED <<wf, argVars, restVars, error, inputnode, outputnode, xfmVars, specVars>>

\* lines 213-233: if probmap: ... return workflow
CoregProbmap ==
    /\ wf = "init_coregistration_wf" /\ pc = "branch"
    /\ CoregBranch(t1w_mask, probmap) = "probmap"
    /\ nodes' = ConnectNodes(nodes, CoregBranchEdges("probmap"))
    /\ edges' = ConnectEdges(edges, CoregBranchEdges("probmap"))
    /\ pc' = "done"
    /\ UNCHANGED <<wf, argVars, restVars, error, inputnode, outputnode, xfmVars, specVars>>

\* lines 235-254: the fallback, reached when neither flag is set
CoregPrecomp ==
    /\ wf = "init_coregistration_wf" /\ pc = "branch"
    /\ CoregBranch(t1w_mask, probmap) = "precomp"
    /\ nodes' = ConnectNodes(nodes, CoregBranchEdges("precomp"))
    /\ edges' = ConnectEdges(edges, CoregBranchEdges("precomp"))
    /\ pc' = "done"
    /\ UNCHANGED <<wf, argVars, restVars, error, inputnode, outputnode, xfmVars, specVars>>

(***************************************************************************)
(* init_coregister_derivatives_wf                                          *)
(***************************************************************************)
DerivInputFields ==
    {"t1w_ref", "t2w_ref", "t1w2t2w_xfm", "t1w_mask", "t1w_aseg", "t2w_aseg"}
\* an outputnode that declares only the ports of the requested branches
DerivOutputFields_requested ==
    (IF t1w_mask THEN {"t2w_mask"} ELSE {})
        \cup (IF t1w_aseg THEN {"t2w_aseg"} ELSE {})
        \cup (IF t2w_aseg THEN {"t1w_aseg"} ELSE {})

DerivOutputFields == {"t2w_mask", "t1w_aseg", "t2w_aseg"}

\* the t1w_mask branch with its result fed back into inputnode
DerivT1wMaskEdges_feedback == <<
    <<"inputnode", "t1w_mask", "t1wmask2t2w", "input_image">>,
    <<"inputnode", "t1w2t2w_xfm", "t1wmask2t2w", "transforms">>,
    <<"inputnode", "t2w_ref", "t1wmask2t2w", "reference_image">>,
    <<"t1wmask2t2w", "output_image", "outputnode", "t2w_mask">>,
    <<"t1wmask2t2w", "output_image", "inputnode", "t1w_mask">> >>

DerivT1wMaskEdges == <<
    <<"inputnode", "t1w_mask", "t1wmask2t2w", "input_image">>,
    <<"inputnode", "t1w2t2w_xfm", "t1wmask2t2w", "transforms">>,
    <<"inputnode", "t2w_ref", "t1wmask2t2w", "reference_image">>,
    <<"t1wmask2t2w", "output_image", "outputnode", "t2w_mask">> >>

DerivT1wAsegEdges == <<
    <<"inputnode", "t1w_aseg", "t1waseg2t2w", "input_image">>,
    <<"inputnode", "t1w2t2w_xfm", "t1waseg2t2w", "transforms">>,
    <<"inputnode", "t2w_ref", "t1waseg2t2w", "reference_image">>,
    <<"t1waseg2t2w", "output_image", "outputnode", "t2w_aseg">> >>

\* the t2w_aseg branch wired to the output port of the t1w_aseg branch
DerivT2wAsegEdges_samePort == <<
    <<"inputnode", "t2w_aseg", "t2waseg2t1w", "input_image">>,
    <<"inputnode", "t1w2t2w_xfm", "t2waseg2t1w", "transforms">>,
    <<"inputnode", "t1w_ref", "t2waseg2t1w", "reference_image">>,
    <<"t2waseg2t1w", "output_image", "outputnode", "t2w_aseg">> >>

DerivT2wAsegEdges == <<
    <<"inputnode", "t2w_aseg", "t2waseg2t1w", "input_image">>,
    <<"inputnode", "t1w2t2w_xfm", "t2waseg2t1w", "transforms">>,
    <<"inputnode", "t1w_ref", "t2waseg2t1w", "reference_image">>,
    <<"t2waseg2t1w", "output_image", "outputnode", "t1w_aseg">> >>

\* lines 261-270: the workflow and its two IdentityInterface nodes; nothing is
\* connected yet, so the graph is still empty
DerivStart ==
    /\ wf = "init_coregister_derivatives_wf" /\ pc = "start"
    /\ inputnode' = DerivInputFields
    /\ outputnode' = DerivOutputFields
    /\ pc' = "t1w_mask"
    /\ UNCHANGED <<wf, argVars, restVars, error, nodes, edges, xfmVars, specVars>>

\* lines 272-282: if t1w_mask
DerivT1wMask ==
    /\ wf = "init_coregister_derivatives_wf" /\ pc = "t1w_mask"
    /\ IF t1w_mask
       THEN /\ nodes' = ConnectNodes(nodes, DerivT1wMaskEdges)
            /\ edges' = ConnectEdges(edges, DerivT1wMaskEdges)
       ELSE UNCHANGED <<nodes, edges>>
    /\ pc' = "t1w_aseg"
    /\ UNCHANGED <<wf, argVars, restVars, error, inputnode, outputnode, xfmVars, specVars>>

\* lines 283-293: if t1w_aseg
DerivT1wAseg ==
    /\ wf = "init_coregister_derivatives_wf" /\ pc = "t1w_aseg"
    /\ IF t1w_aseg
       THEN /\ nodes' = ConnectNodes(nodes, DerivT1wAsegEdges)
            /\ edges' = ConnectEdges(edges, DerivT1wAsegEdges)
       ELSE UNCHANGED <<nodes, edges>>
    /\ pc' = "t2w_aseg"
    /\ UNCHANGED <<wf, argVars, restVars, error, inputnode, outputnode, xfmVars, specVars>>

\* t2waseg2t1w.inputs.invert_transform_flags = [True, False]
T2wAsegInvertFlags == <<TRUE, FALSE>>

\* lines 294-306: if t2w_aseg; return workflow
DerivT2wAseg ==
    /\ wf = "init_coregister_derivatives_wf" /\ pc = "t2w_aseg"
    /\ IF t2w_aseg
       THEN /\ nodes' = ConnectNodes(nodes, DerivT2wAsegEdges)
            /\ edges' = ConnectEdges(edges, DerivT2wAsegEdges)
            /\ node_inputs' = node_inputs \cup
                   {<<"t2waseg2t1w", "invert_transform_flags", T2wAsegInvertFlags>>}
       ELSE UNCHANGED <<nodes, edges, node_inputs>>
    /\ pc' = "done"
    /\ UNCHANGED <<wf, argVars, bare, callVars, runVars, error, inputnode, outputnode,
                   xfmVars, specVars>>

(***************************************************************************)
(* init_concat_registrations_wf                                            *)
(***************************************************************************)
TemplateNames == {"MNI152NLin6Asym", "MNIPediatricAsym:cohort-4", "fsLR"}

ConcatRegInputFields ==
    {"template", "anat_preproc", "anat2std_xfm", "intermediate", "std2anat_xfm"}
ConcatRegOutputFields == {"anat2std_xfm", "std2anat_xfm", "template", "template_spec"}

ConcatRegEdges == <<
    <<"inputnode", "anat2std_xfm", "merge_anat2std", "in2">>,
    <<"inputnode", "std2anat_xfm", "merge_std2anat", "in2">>,
    <<"inputnode", "anat_preproc", "concat_std2anat", "reference_image">>,
    <<"inputnode", "intermediate", "intermed_xfms", "intermediate">>,
    <<"inputnode", "template", "intermed_xfms", "std">>,
    <<"intermed_xfms", "int2std_xfm", "merge_anat2std", "in1">>,
    <<"intermed_xfms", "std2int_xfm", "merge_std2anat", "in1">>,
    <<"merge_anat2std", "out", "concat_anat2std", "transforms">>,
    <<"merge_std2anat", "out", "concat_std2anat", "transforms">>,
    <<"inputnode", "template", "split_desc", "template">>,
    <<"split_desc", "name", "tf_select", "template">>,
    <<"split_desc", "spec", "tf_select", "template_spec">>,
    <<"tf_select", "t1w_file", "concat_anat2std", "reference_image">>,
    <<"split_desc", "name", "fmt_cohort", "template">>,
    <<"split_desc", "spec", "fmt_cohort", "spec">>,
    <<"fmt_cohort", "template", "outputnode", "template">>,
    <<"fmt_cohort", "spec", "outputnode", "template_spec">>,
    <<"concat_anat2std", "out_xfm", "outputnode", "anat2std_xfm">>,
    <<"concat_std2anat", "out_xfm", "outputnode", "std2anat_xfm">> >>

\* lines 350-478: the wiring is the same for every templates list
ConcatRegConnect ==
    /\ wf = "init_concat_registrations_wf" /\ pc = "start"
    /\ inputnode' = ConcatRegInputFields
    /\ outputnode' = ConcatRegOutputFields
    /\ nodes' = ConnectNodes(nodes, ConcatRegEdges)
    /\ edges' = ConnectEdges(edges, ConcatRegEdges)
    /\ pc' = "done"
    /\ UNCHANGED <<wf, argVars, restVars, error, xfmVars, specVars>>

(***************************************************************************)
(* init_infant_brain_extraction_wf                                         *)
(*                                                                         *)
(* A dict is a function from the keys it holds to their values.  The       *)
(* caller passes None or a dict; age_months is <<>> for None and <<n>> for *)
(* n months.                                                               *)
(***************************************************************************)
SpecKeys == {"resolution", "cohort"}
SpecValues == 0..2
Dicts == UNION {[ks -> SpecValues] : ks \in SUBSET SpecKeys}
EmptyDict == [k \in {} |-> 0]
Put(d, k, v) == [x \in DOMAIN d \cup {k} |-> IF x = k THEN v ELSE d[x]]
\* d.get(k): falsy when the key is missing or holds 0
Get(d, k) == IF k \in DOMAIN d THEN d[k] ELSE 0

AffineInits == {"False", "True", "random", "search"}
\* `if ants_affine_init` read as `if ants_affine_init is True`
Truthy_trueOnly(v) == v = "True"

\* `if ants_affine_init` (line 237): False is falsy, True and the two strings
\* are truthy
Truthy(v) == v # "False"

BexInputFields == {"in_t2w"}
BexOutputFields == {"t2w_preproc", "t2w_brain", "out_mask", "out_probmap"}

BexEdges == <<
    <<"inputnode", "in_t2w", "bspline_grid", "in_file">>,
    <<"inputnode", "in_t2w", "final_n4", "input_image">>,
    <<"inputnode", "in_t2w", "mrg_t2w", "in1">>,
    <<"inputnode", "in_t2w", "lap_t2w", "op1">>,
    <<"inputnode", "in_t2w", "map_mask_t2w", "reference_image">>,
    <<"lap_t2w", "output_image", "norm_lap_t2w", "in_file">>,
    <<"norm_lap_t2w", "out_file", "mrg_t2w", "in2">>,
    <<"clip_tmpl", "out_file", "lap_tmpl", "op1">>,
    <<"lap_tmpl", "output_image", "norm_lap_tmpl", "in_file">>,
    <<"clip_tmpl", "out_file", "mrg_tmpl", "in1">>,
    <<"norm_lap_tmpl", "out_file", "mrg_tmpl", "in2">>,
    <<"mrg_tmpl", "out", "norm", "fixed_image">>,
    <<"mrg_t2w", "out", "norm", "moving_image">>,
    <<"norm", "reverse_transforms", "map_mask_t2w", "transforms">>,
    <<"norm", "reverse_invert_flags", "map_mask_t2w", "invert_transform_flags">>,
    <<"map_mask_t2w", "output_image", "thr_t2w_mask", "in_file">>,
    <<"thr_t2w_mask", "out_mask", "apply_mask", "in_mask">>,
    <<"final_n4", "output_image", "apply_mask", "in_file">>,
    <<"bspline_grid", "out", "final_n4", "args">>,
    <<"map_mask_t2w", "output_image", "final_n4", "weight_image">>,
    <<"final_n4", "output_image", "final_clip", "in_file">>,
    <<"final_clip", "out_file", "outputnode", "t2w_preproc">>,
    <<"map_mask_t2w", "output_image", "outputnode", "out_probmap">>,
    <<"thr_t2w_mask", "out_mask", "outputnode", "out_mask">>,
    <<"apply_mask", "out_file", "outputnode", "t2w_brain">> >>

\* init_aff wired to norm.moving_image, which mrg_t2w already feeds
BexAffineEdges_movingImage == <<
    <<"clip_tmpl", "out_file", "init_aff", "fixed_image">>,
    <<"inputnode", "in_t2w", "init_aff", "moving_image">>,
    <<"init_aff", "output_transform", "norm", "moving_image">> >>

BexAffineEdges == <<
    <<"clip_tmpl", "out_file", "init_aff", "fixed_image">>,
    <<"inputnode", "in_t2w", "init_aff", "moving_image">>,
    <<"init_aff", "output_transform", "norm", "initial_moving_transform">> >>

\* cohort_by_months(template, months) of nibabies.utils.misc picks the cohort
\* of the template for the age; any cohort of the template may come back
Cohorts == 1..2

\* lines 90-99.  `template_specs or {}` keeps the caller's dict when it is a
\* non-empty dict and makes a new one otherwise; the two assignments then
\* write into whichever object the local name is bound to.
BexTemplateSpecs ==
    /\ wf = "init_infant_brain_extraction_wf" /\ pc = "start"
    /\ LET keep == ~caller_specs.none /\ DOMAIN caller_specs.dict # {}
           d0 == IF keep THEN caller_specs.dict ELSE EmptyDict
           d1 == IF skull_strip_template = "MNIInfant"
                 THEN Put(d0, "resolution", IF sloppy THEN 2 ELSE 1)
                 ELSE d0
           needs == Get(d1, "cohort") = 0
           fails == needs /\ age_months = <<>>
       IN \E c \in Cohorts :
            LET d2 == IF needs /\ ~fails THEN Put(d1, "cohort", c) ELSE d1
            IN /\ aliased' = keep
               /\ template_specs' = d2
               /\ caller_specs' = IF keep THEN [caller_specs EXCEPT !.dict = d2]
                                  ELSE caller_specs
               /\ error' = IF fails THEN "KeyError" ELSE ""
               /\ pc' = IF fails THEN "raised" ELSE "get_template"
    /\ UNCHANGED <<wf, argVars, restVars, inputnode, outputnode, nodes, edges, xfmVars>>

\* lines 101-124: templateflow either finds a T1w instance of the template or
\* returns nothing
BexGetTemplate ==
    /\ wf = "init_infant_brain_extraction_wf" /\ pc = "get_template"
    /\ \E tpl_target_path \in BOOLEAN :
         /\ error' = IF tpl_target_path THEN "" ELSE "RuntimeError"
         /\ pc' = IF tpl_target_path THEN "connect" ELSE "raised"
    /\ UNCHANGED <<wf, argVars, restVars, inputnode, outputnode, nodes, edges, xfmVars, specVars>>

\* lines 126-235
BexConnect ==
    /\ wf = "init_infant_brain_extraction_wf" /\ pc = "connect"
    /\ inputnode' = BexInputFields
    /\ outputnode' = BexOutputFields
    /\ nodes' = ConnectNodes(nodes, BexEdges)
    /\ edges' = ConnectEdges(edges, BexEdges)
    /\ pc' = "affine_init"
    /\ UNCHANGED <<wf, argVars, restVars, error, xfmVars, specVars>>

\* lines 237-271: if ants_affine_init; return workflow
BexAffineInit ==
    /\ wf = "init_infant_brain_extraction_wf" /\ pc = "affine_init"
    /\ IF Truthy(ants_affine_init)
       THEN /\ nodes' = ConnectNodes(nodes, BexAffineEdges)
            /\ edges' = ConnectEdges(edges, BexAffineEdges)
       ELSE UNCHANGED <<nodes, edges>>
    /\ pc' = "done"
    /\ UNCHANGED <<wf, argVars, restVars, error, inputnode, outputnode, xfmVars, specVars>>

(***************************************************************************)
(* A run of the graph of init_concat_registrations_wf.                     *)
(*                                                                         *)
(* A value on a port is [list, items]: one artifact (list FALSE, one item) *)
(* or a list of items.  A transform is [from, to], the spaces it maps      *)
(* between; the intermediate space is written as _load_intermediate_xfms   *)
(* writes it.  A node runs once the nodes feeding it have run; a MapNode   *)
(* runs one instance per element of the lists on its iterfields and fails  *)
(* when those lists differ in length.                                      *)
(***************************************************************************)
Single(x) == [list |-> FALSE, items |-> <<x>>]
List(xs) == [list |-> TRUE, items |-> xs]
\* a single value where one artifact was set, the list where a list was
Value(v) == IF v.list THEN v.items ELSE v.items[1]
\* a single value counts as a list of one
ensure_list(v) == v.items

Xfm(from, to) == [from |-> from, to |-> to]

Intermediate == "MNIInfant:cohort-1"

\* intermediate.replace(':cohort-', '+')
Intmed(intermediate) ==
    IF intermediate = "MNIInfant:cohort-1" THEN "MNIInfant+1" ELSE intermediate

\* the two transforms read with from and to exchanged
LoadIntermediateXfms_exchanged(intermediate, std) ==
    [int2std_xfm |-> Xfm(std, Intmed(intermediate)),
     std2int_xfm |-> Xfm(Intmed(intermediate), std)]

\* tpl_xfms/from-{intmed}_to-{std}_xfm.h5 and from-{std}_to-{intmed}_xfm.h5
LoadIntermediateXfms(intermediate, std) ==
    [int2std_xfm |-> Xfm(Intmed(intermediate), std),
     std2int_xfm |-> Xfm(std, Intmed(intermediate))]

\* TemplateDesc: 'MNIPediatricAsym:cohort-4' is the template MNIPediatricAsym
\* with the spec cohort 4; a name without ':' has the empty spec (cohort 0)
TemplateDescName(t) == IF t = "MNIPediatricAsym:cohort-4" THEN "MNIPediatricAsym" ELSE t
TemplateDescSpec(t) == IF t = "MNIPediatricAsym:cohort-4" THEN 4 ELSE 0

\* _fmt_cohort: the cohort goes from the spec back into the name
FmtCohort(name, cohort) ==
    [template |-> CHOOSE t \in TemplateNames :
                      TemplateDescName(t) = name /\ TemplateDescSpec(t) = cohort,
     spec |-> 0]

\* what the caller sets on inputnode; template is set at build time
ConcatRegInputs ==
    [template |-> List(templates),
     anat_preproc |-> Single("anat_preproc"),
     anat2std_xfm |-> Single(Xfm("anat", Intmed(Intermediate))),
     intermediate |-> Single(Intermediate),
     std2anat_xfm |-> Single(Xfm(Intmed(Intermediate), "anat"))]

\* iterfield= of each MapNode
IterFields ==
    [intermed_xfms |-> {"std"},
     split_desc |-> {"template"},
     tf_select |-> {"template", "template_spec"},
     merge_anat2std |-> {"in1", "in2"},
     merge_std2anat |-> {"in1", "in2"},
     concat_anat2std |-> {"transforms", "reference_image"},
     concat_std2anat |-> {"transforms", "reference_image"},
     fmt_cohort |-> {"template", "spec"}]

MapNodes == DOMAIN IterFields

InEdges(n) == {e \in Range(edges) : Dst(e) = n}
Feeders(n) == {Src(e) : e \in InEdges(n)}

\* the value the graph hands to port p of node n
Input(n, p) ==
    LET e == CHOOSE x \in InEdges(n) : DstPort(x) = p
    IN outs[Src(e)][SrcPort(e)]

\* lengths of the lists on the iterfields of MapNode n
IterLengths(n) == {Len(ensure_list(Input(n, p))) : p \in IterFields[n]}

\* what instance i of MapNode n sees on port p
InstanceInput(n, i, p) ==
    IF p \in IterFields[n] THEN ensure_list(Input(n, p))[i] ELSE Value(Input(n, p))

\* what instance i of MapNode n puts out
InstanceOutput(n, i) ==
    CASE n = "intermed_xfms" ->
            LoadIntermediateXfms(InstanceInput(n, i, "intermediate"),
                                 InstanceInput(n, i, "std"))
      [] n = "split_desc" ->
            [name |-> TemplateDescName(InstanceInput(n, i, "template")),
             spec |-> TemplateDescSpec(InstanceInput(n, i, "template"))]
      [] n = "tf_select" ->
            [t1w_file |-> <<InstanceInput(n, i, "template"),
                            InstanceInput(n, i, "template_spec")>>]
      [] n \in {"merge_anat2std", "merge_std2anat"} ->
            [out |-> <<InstanceInput(n, i, "in1"), InstanceInput(n, i, "in2")>>]
      [] n \in {"concat_anat2std", "concat_std2anat"} ->
            [out_xfm |-> [transforms |-> InstanceInput(n, i, "transforms"),
                          reference_image |-> InstanceInput(n, i, "reference_image")]]
      [] n = "fmt_cohort" ->
            FmtCohort(InstanceInput(n, i, "template"), InstanceInput(n, i, "spec"))

OutPorts(n) ==
    CASE n = "intermed_xfms" -> {"int2std_xfm", "std2int_xfm"}
      [] n = "split_desc" -> {"name", "spec"}
      [] n = "tf_select" -> {"t1w_file"}
      [] n \in {"merge_anat2std", "merge_std2anat"} -> {"out"}
      [] n \in {"concat_anat2std", "concat_std2anat"} -> {"out_xfm"}
      [] n = "fmt_cohort" -> {"template", "spec"}

\* the outputs of a MapNode are the lists of its instances' outputs
MapNodeOutput(n) ==
    LET k == CHOOSE l \in IterLengths(n) : TRUE
    IN [p \in OutPorts(n) |-> List([i \in 1..k |-> InstanceOutput(n, i)[p]])]

\* an IdentityInterface hands on what it was given
OutputnodeOutput == [p \in {DstPort(e) : e \in InEdges("outputnode")} |-> Input("outputnode", p)]

Ready(n) ==
    /\ n \in nodes
    /\ n \notin DOMAIN outs
    /\ n \notin failed
    /\ Feeders(n) \subseteq DOMAIN outs

ArityMismatchError(n) == n \in MapNodes /\ Cardinality(IterLengths(n)) > 1

Ran(n, out) == [x \in DOMAIN outs \cup {n} |-> IF x = n THEN out ELSE outs[x]]

RunNode ==
    /\ wf = "init_concat_registrations_wf" /\ pc = "done"
    /\ \E n \in nodes :
        /\ Ready(n)
        /\ IF ArityMismatchError(n)
           THEN failed' = failed \cup {n} /\ outs' = outs
           ELSE /\ failed' = failed
                /\ outs' = Ran(n, CASE n = "inputnode" -> ConcatRegInputs
                                    [] n = "outputnode" -> OutputnodeOutput
                                    [] OTHER -> MapNodeOutput(n))
    /\ UNCHANGED <<wf, pc, argVars, bare, node_inputs, callVars, running, inputnode, outputnode,
                   nodes, edges, error, xfmVars, specVars>>

(***************************************************************************)
(* A run of the graph of init_coregistration_wf.  Its nodes are plain      *)
(* nodes: one starts once every node feeding it has finished, works for a  *)
(* while, and finishes with its outputs; several may work at once.  What a *)
(* node computes is opaque: an output carries the name of its producer.    *)
(***************************************************************************)
OutEdges(n) == {e \in Range(edges) : Src(e) = n}

OpaqueOutput(n) == [p \in {SrcPort(e) : e \in OutEdges(n)} |-> Single(n)]

StartNode ==
    /\ wf = "init_coregistration_wf" /\ pc = "done"
    /\ \E n \in nodes :
        /\ Ready(n) /\ n \notin running
        /\ running' = running \cup {n}
    /\ UNCHANGED <<wf, pc, argVars, bare, node_inputs, callVars, outs, failed, inputnode, outputnode,
                   nodes, edges, error, xfmVars, specVars>>

FinishNode ==
    /\ wf = "init_coregistration_wf" /\ pc = "done"
    /\ \E n \in running :
        /\ running' = running \ {n}
        /\ outs' = Ran(n, OpaqueOutput(n))
    /\ UNCHANGED <<wf, pc, argVars, bare, node_inputs, callVars, failed, inputnode, outputnode,
                   nodes, edges, error, xfmVars, specVars>>

(***************************************************************************)
(* Surface reconstruction: init_midthickness_wf and the two builders that  *)
(* embed it, init_mcribs_surface_recon_wf and                              *)
(* init_infantfs_surface_recon_wf.  The embedded workflow is the node      *)
(* make_midthickness_wf of its parent; its ports are the dotted names      *)
(* inputnode.X and outputnode.X.  precomputed is [has_transforms,          *)
(* transforms]: whether the dict has the key 'transforms' and the keys of  *)
(* that entry.                                                             *)
(***************************************************************************)
SURFACE_INPUTS ==
    {"t1w", "t2w", "flair", "skullstripped_t1", "subjects_dir", "subject_id",
     "in_aseg", "in_mask"}
SURFACE_OUTPUTS == {"subjects_dir", "subject_id", "anat2fsnative_xfm", "fsnative2anat_xfm"}

MidthicknessInputFields == {"white", "graymid"}
MidthicknessOutputFields == {"subject_id", "subjects_dir"}

\* lines 358-359: inputnode and outputnode are niu.IdentityInterface objects
\* given a name, not pe.Node objects holding one
MidthicknessBare == {"inputnode", "outputnode"}

MidthicknessEdges == <<
    <<"inputnode", "white", "midthickness", "in_file">>,
    <<"inputnode", "graymid", "midthickness", "graymid">>,
    <<"midthickness", "out_file", "save_midthickness", "surf.@graymid">>,
    <<"save_midthickness", "out_file", "sync", "filenames">>,
    <<"sync", "subjects_dir", "outputnode", "subjects_dir">>,
    <<"sync", "subject_id", "outputnode", "subject_id">> >>

\* lines 357-389
MidthicknessBuild ==
    /\ wf = "init_midthickness_wf" /\ pc = "start"
    /\ inputnode' = MidthicknessInputFields
    /\ outputnode' = MidthicknessOutputFields
    /\ bare' = MidthicknessBare
    /\ node_inputs' = node_inputs
    /\ nodes' = ConnectNodes(nodes, MidthicknessEdges)
    /\ edges' = ConnectEdges(edges, MidthicknessEdges)
    /\ pc' = "done"
    /\ UNCHANGED <<wf, argVars, callVars, runVars, error, xfmVars, specVars>>

\* 'fsnative' not in precomputed['transforms'], a missing key counting as
\* already computed
NeedsFsnative_keyRequired(pre) == pre.has_transforms /\ "fsnative" \notin pre.transforms

\* 'fsnative' not in precomputed.get('transforms', {})  (lines 177, 325)
NeedsFsnative(pre) == ~(pre.has_transforms /\ "fsnative" \in pre.transforms)

\* `if not use_aseg` is never taken
UseAsegMissing_never(aseg) == FALSE

\* `if not use_aseg` (line 60)
UseAsegMissing(aseg) == ~aseg

McribsMaskEdges == <<
    <<"inputnode", "in_mask", "mask_dil", "in_mask">>,
    <<"mask_dil", "out_mask", "mask_las", "in_file">>,
    <<"mask_las", "out_file", "mcribs_recon", "mask_file">> >>

McribsEdges == <<
    <<"inputnode", "t2w", "t2w_las", "in_file">>,
    <<"inputnode", "in_aseg", "map_labels", "in_file">>,
    <<"map_labels", "out_file", "seg_las", "in_file">>,
    <<"inputnode", "subjects_dir", "mcribs_recon", "subjects_dir">>,
    <<"inputnode", "subject_id", "mcribs_recon", "subject_id">>,
    <<"t2w_las", "out_file", "mcribs_recon", "t2w_file">>,
    <<"seg_las", "out_file", "mcribs_recon", "segmentation_file">>,
    <<"inputnode", "subjects_dir", "mcribs_postrecon", "subjects_dir">>,
    <<"inputnode", "subject_id", "mcribs_postrecon", "subject_id">>,
    <<"mcribs_recon", "mcribs_dir", "mcribs_postrecon", "outdir">>,
    <<"mcribs_postrecon", "subjects_dir", "fssource", "subjects_dir">>,
    <<"inputnode", "subject_id", "fssource", "inputnode.subject_id">>,
    <<"fssource", "white", "make_midthickness_wf", "inputnode.white">>,
    <<"fssource", "graymid", "make_midthickness_wf", "inputnode.graymid">>,
    <<"make_midthickness_wf", "outputnode.subjects_dir", "outputnode", "subjects_dir">>,
    <<"make_midthickness_wf", "outputnode.subject_id", "outputnode", "subject_id">> >>

McribsFsnativeEdges == <<
    <<"inputnode", "t2w", "fsnative2anat_xfm", "target_file">>,
    <<"fssource", "T2", "fsnative2anat_xfm", "source_file">>,
    <<"fsnative2anat_xfm", "out_reg_file", "outputnode", "fsnative2anat_xfm">>,
    <<"fsnative2anat_xfm", "out_reg_file", "anat2fsnative_xfm", "in_lta">>,
    <<"anat2fsnative_xfm", "out_lta", "outputnode", "anat2fsnative_xfm">> >>

\* lines 60-63: the precondition, before anything is created
McribsCheck ==
    /\ wf = "init_mcribs_surface_recon_wf" /\ pc = "start"
    /\ error' = IF UseAsegMissing(use_aseg) THEN "NotImplementedError" ELSE ""
    /\ pc' = IF UseAsegMissing(use_aseg) THEN "raised" ELSE "use_mask"
    /\ UNCHANGED <<wf, argVars, restVars, inputnode, outputnode, nodes, edges,
                   xfmVars, specVars>>

\* lines 65-141: the nodes, and the mask branch when use_mask
McribsMask ==
    /\ wf = "init_mcribs_surface_recon_wf" /\ pc = "use_mask"
    /\ inputnode' = SURFACE_INPUTS
    /\ outputnode' = SURFACE_OUTPUTS
    /\ IF use_mask
       THEN /\ nodes' = ConnectNodes(nodes, McribsMaskEdges)
            /\ edges' = ConnectEdges(edges, McribsMaskEdges)
       ELSE UNCHANGED <<nodes, edges>>
    /\ pc' = "connect"
    /\ UNCHANGED <<wf, argVars, restVars, error, xfmVars, specVars>>

\* lines 143-175
McribsConnect ==
    /\ wf = "init_mcribs_surface_recon_wf" /\ pc = "connect"
    /\ nodes' = ConnectNodes(nodes, McribsEdges)
    /\ edges' = ConnectEdges(edges, McribsEdges)
    /\ pc' = "fsnative"
    /\ UNCHANGED <<wf, argVars, restVars, error, inputnode, outputnode, xfmVars, specVars>>

\* lines 177-194
McribsFsnative ==
    /\ wf = "init_mcribs_surface_recon_wf" /\ pc = "fsnative"
    /\ IF NeedsFsnative(precomputed)
       THEN /\ nodes' = ConnectNodes(nodes, McribsFsnativeEdges)
            /\ edges' = ConnectEdges(edges, McribsFsnativeEdges)
       ELSE UNCHANGED <<nodes, edges>>
    /\ pc' = "done"
    /\ UNCHANGED <<wf, argVars, restVars, error, inputnode, outputnode, xfmVars, specVars>>

InfantfsAsegEdges == <<
    <<"inputnode", "in_aseg", "reconall", "aseg_file">> >>

\* the sub-graph fed from the reconstruction node instead of fssource
InfantfsEdges_otherEmbedding == <<
    <<"inputnode", "subjects_dir", "gen_recon_outdir", "subjects_dir">>,
    <<"inputnode", "subject_id", "gen_recon_outdir", "subject_id">>,
    <<"inputnode", "skullstripped_t1", "reconall", "mask_file">>,
    <<"inputnode", "subject_id", "reconall", "subject_id">>,
    <<"gen_recon_outdir", "out", "reconall", "outdir">>,
    <<"reconall", "subject_id", "fssource", "subject_id">>,
    <<"reconall", "outdir", "fssource", "subjects_dir">>,
    <<"fssource", "white", "make_midthickness_wf", "inputnode.white">>,
    <<"fssource", "graymid", "make_midthickness_wf", "inputnode.graymid">>,
    <<"reconall", "outdir", "outputnode", "subjects_dir">>,
    <<"make_midthickness_wf", "outputnode.subject_id", "outputnode", "subject_id">> >>

\* the source port ('outdir', _parent) is written "outdir", ('norm',
\* _replace_mgz) "norm": the function applied on the way is not part of the
\* graph's shape
InfantfsEdges == <<
    <<"inputnode", "subjects_dir", "gen_recon_outdir", "subjects_dir">>,
    <<"inputnode", "subject_id", "gen_recon_outdir", "subject_id">>,
    <<"inputnode", "skullstripped_t1", "reconall", "mask_file">>,
    <<"inputnode", "subject_id", "reconall", "subject_id">>,
    <<"gen_recon_outdir", "out", "reconall", "outdir">>,
    <<"reconall", "subject_id", "fssource", "subject_id">>,
    <<"reconall", "outdir", "fssource", "subjects_dir">>,
    <<"fssource", "white", "make_midthickness_wf", "inputnode.white">>,
    <<"fssource", "graymid", "make_midthickness_wf", "inputnode.graymid">>,
    <<"make_midthickness_wf", "outputnode.subjects_dir", "outputnode", "subjects_dir">>,
    <<"make_midthickness_wf", "outputnode.subject_id", "outputnode", "subject_id">> >>

InfantfsFsnativeEdges == <<
    <<"inputnode", "skullstripped_t1", "fsnative2anat_xfm", "target_file">>,
    <<"fssource", "norm", "fsnative2anat_xfm", "source_file">>,
    <<"fsnative2anat_xfm", "out_reg_file", "anat2fsnative_xfm", "in_lta">>,
    <<"fsnative2anat_xfm", "out_reg_file", "outputnode", "fsnative2anat_xfm">>,
    <<"anat2fsnative_xfm", "out_lta", "outputnode", "anat2fsnative_xfm">> >>

\* lines 277-294: the nodes, and the aseg link when use_aseg
InfantfsStart ==
    /\ wf = "init_infantfs_surface_recon_wf" /\ pc = "start"
    /\ inputnode' = SURFACE_INPUTS
    /\ outputnode' = SURFACE_OUTPUTS
    /\ IF use_aseg
       THEN /\ nodes' = ConnectNodes(nodes, InfantfsAsegEdges)
            /\ edges' = ConnectEdges(edges, InfantfsAsegEdges)
       ELSE UNCHANGED <<nodes, edges>>
    /\ pc' = "connect"
    /\ UNCHANGED <<wf, argVars, restVars, error, xfmVars, specVars>>

\* lines 296-323
InfantfsConnect ==
    /\ wf = "init_infantfs_surface_recon_wf" /\ pc = "connect"
    /\ nodes' = ConnectNodes(nodes, InfantfsEdges)
    /\ edges' = ConnectEdges(edges, InfantfsEdges)
    /\ pc' = "fsnative"
    /\ UNCHANGED <<wf, argVars, restVars, error, inputnode, outputnode, xfmVars, specVars>>

\* lines 325-348
InfantfsFsnative ==
    /\ wf = "init_infantfs_surface_recon_wf" /\ pc = "fsnative"
    /\ IF NeedsFsnative(precomputed)
       THEN /\ nodes' = ConnectNodes(nodes, InfantfsFsnativeEdges)
            /\ edges' = ConnectEdges(edges, InfantfsFsnativeEdges)
       ELSE UNCHANGED <<nodes, edges>>
    /\ pc' = "done"
    /\ UNCHANGED <<wf, argVars, restVars, error, inputnode, outputnode, xfmVars, specVars>>

(***************************************************************************)
(* The same builder called again with the same arguments                   *)
(***************************************************************************)
Repeatable ==
    {"init_coregistration_wf", "init_coregister_derivatives_wf",
     "init_concat_registrations_wf"}

\* the second call adds to the workflow object of the first
NewWorkflow_reused(first_nodes, first_edges) ==
    [nodes |-> first_nodes, edges |-> first_edges]

\* every call makes its workflow and node objects anew (registration.py
\* lines 114, 261, 351): the second call starts from an empty graph
NewWorkflow(first_nodes, first_edges) == [nodes |-> {}, edges |-> <<>>]

CallAgain ==
    /\ wf \in Repeatable /\ pc = "done" /\ call = 1
    /\ call' = 2
    /\ prev_nodes' = nodes
    /\ prev_edges' = edges
    /\ nodes' = NewWorkflow(nodes, edges).nodes
    /\ edges' = NewWorkflow(nodes, edges).edges
    /\ inputnode' = {} /\ outputnode' = {}
    /\ outs' = <<>> /\ failed' = {} /\ running' = {}
    /\ node_inputs' = {}
    /\ pc' = "start"
    /\ UNCHANGED <<wf, argVars, bare, error, xfmVars, specVars>>

(***************************************************************************)
(* ConcatXFM._get_transform_filenames                                      *)
(*                                                                         *)
(* The command-line fragment is a list of its space-separated tokens.      *)
(* invert_transform_flags is [defined, value]: an input left unset is      *)
(* undefined and has no value.                                             *)
(***************************************************************************)
Transforms == {"xfm0.h5", "xfm1.h5", "identity"}

\* the token f'{transform},' of an inverted entry
Comma(t) ==
    CASE t = "xfm0.h5" -> "xfm0.h5,"
      [] t = "xfm1.h5" -> "xfm1.h5,"
      [] t = "identity" -> "identity,"

SeqsUpTo(S, n) == UNION {[1..k -> S] : k \in 0..n}

Min(a, b) == IF a <= b THEN a ELSE b

\* `not invert_flags` read as `invert_flags is unset`
NotFlags_absentOnly(fl) == ~fl.defined

\* `not invert_flags` (line 84): unset, or an empty list
NotFlags(fl) == ~fl.defined \/ Len(fl.value) = 0

\* every transform inverted by default
DefaultFlags_allTrue(n) == [i \in 1..n |-> TRUE]

\* [False] * len(self.inputs.transforms) (line 85)
DefaultFlags(n) == [i \in 1..n |-> FALSE]

\* only a flag list longer than the transforms is rejected
ArityMismatch_tooMany(xs, fl) == Len(xs) < Len(fl)

\* len(self.inputs.transforms) != len(invert_flags) (line 86)
ArityMismatch(xs, fl) == Len(xs) # Len(fl)

\* the invert flag is dropped
TransformArg_plain(transform, invert) == <<"--transform", transform>>

\* lines 93-96: one entry of the argument
TransformArg(transform, invert) ==
    IF invert
    THEN <<"--transform", "[", Comma(transform), "1", "]">>
    ELSE <<"--transform", transform>>

\* the entries are emitted last transform first
RECURSIVE JoinArgs_reversed(_, _, _)
JoinArgs_reversed(xs, fl, i) ==
    IF i > Min(Len(xs), Len(fl)) THEN <<>>
    ELSE JoinArgs_reversed(xs, fl, i + 1) \o TransformArg(xs[i], fl[i])

\* lines 92-97: zip(transforms, invert_flags, strict=False) stops at the shorter
\* list; ' '.join(retval) puts the entries one after the other
RECURSIVE JoinArgs(_, _, _)
JoinArgs(xs, fl, i) ==
    IF i > Min(Len(xs), Len(fl)) THEN <<>>
    ELSE TransformArg(xs[i], fl[i]) \o JoinArgs(xs, fl, i + 1)

\* lines 81-97
GetTransformFilenames(xs, flags) ==
    IF NotFlags(flags)
    THEN [raised |-> FALSE, retval |-> JoinArgs(xs, DefaultFlags(Len(xs)), 1)]
    ELSE IF ArityMismatch(xs, flags.value)
         THEN [raised |-> TRUE, retval |-> <<>>]
         ELSE [raised |-> FALSE, retval |-> JoinArgs(xs, flags.value, 1)]

\* _format_arg('transforms', ...) (lines 99-101)
FormatArg ==
    /\ wf = "ConcatXFM" /\ pc = "start"
    /\ LET r == GetTransformFilenames(transforms, invert_transform_flags)
       IN /\ raised' = r.raised
          /\ retval' = r.retval
    /\ pc' = "done"
    /\ UNCHANGED <<wf, argVars, restVars, error, inputnode, outputnode, nodes, edges,
                   transforms, invert_transform_flags, specVars>>

\* The entries antsApplyTransforms reads back from the fragment:
\* --transform NAME, or --transform [ NAME, 1 ] for an inverted one
Uncomma(tok) == CHOOSE t \in Transforms : Comma(t) = tok

RECURSIVE ParseTransformArgs(_)
ParseTransformArgs(toks) ==
    IF Len(toks) < 2 \/ toks[1] # "--transform" THEN <<>>
    ELSE IF toks[2] = "["
         THEN <<[transform |-> Uncomma(toks[3]), invert |-> TRUE]>>
              \o ParseTransformArgs(SubSeq(toks, 6, Len(toks)))
         ELSE <<[transform |-> toks[2], invert |-> FALSE]>>
              \o ParseTransformArgs(SubSeq(toks, 3, Len(toks)))

\* "will be applied in reverse order ... the last specified transform will be
\* applied first" (desc of ConcatXFMInputSpec.transforms)
AppliedOrder(entries) == [i \in 1..Len(entries) |-> entries[Len(entries) + 1 - i]]

(***************************************************************************)
(* Specification                                                           *)
(***************************************************************************)
Workflows ==
    {"init_coregistration_wf", "init_coregister_derivatives_wf",
     "init_concat_registrations_wf", "init_infant_brain_extraction_wf", "ConcatXFM",
     "init_midthickness_wf", "init_mcribs_surface_recon_wf",
     "init_infantfs_surface_recon_wf"}

SurfaceBuilders == {"init_mcribs_surface_recon_wf", "init_infantfs_surface_recon_wf"}

NoPrecomputed == [has_transforms |-> FALSE, transforms |-> {}]

PrecomputedInputs ==
    {NoPrecomputed}
        \cup {[has_transforms |-> TRUE, transforms |-> ks] : ks \in SUBSET {"fsnative", "MNIInfant"}}

NoFlags == [defined |-> FALSE, value |-> <<>>]

FlagInputs ==
    {NoFlags} \cup {[defined |-> TRUE, value |-> v] : v \in SeqsUpTo(BOOLEAN, MaxXfms)}

SpecInputs ==
    {[none |-> TRUE, dict |-> EmptyDict]} \cup {[none |-> FALSE, dict |-> d] : d \in Dicts}

Only(w, S, dflt) == IF wf = w THEN S ELSE {dflt}

Init ==
    /\ wf \in Workflows
    /\ pc = "start"
    /\ t1w_mask \in (IF wf \in {"init_coregistration_wf", "init_coregister_derivatives_wf"}
                     THEN BOOLEAN ELSE {FALSE})
    /\ probmap \in Only("init_coregistration_wf", BOOLEAN, FALSE)
    /\ t1w_aseg \in Only("init_coregister_derivatives_wf", BOOLEAN, FALSE)
    /\ t2w_aseg \in Only("init_coregister_derivatives_wf", BOOLEAN, FALSE)
    /\ inputnode = {} /\ outputnode = {}
    /\ nodes = {} /\ edges = <<>>
    /\ transforms \in Only("ConcatXFM", SeqsUpTo(Transforms, MaxXfms), <<>>)
    /\ invert_transform_flags \in Only("ConcatXFM", FlagInputs, NoFlags)
    /\ retval = <<>> /\ raised = FALSE
    /\ templates \in Only("init_concat_registrations_wf",
                          SeqsUpTo(TemplateNames, MaxTemplates), <<>>)
    /\ age_months \in (IF wf = "init_infant_brain_extraction_wf"
                       THEN {<<>>} \cup {<<n>> : n \in 0..MaxAge}
                       ELSE IF wf = "init_infantfs_surface_recon_wf"
                       THEN {<<n>> : n \in 0..MaxAge}
                       ELSE {<<>>})
    /\ ants_affine_init \in Only("init_infant_brain_extraction_wf", AffineInits, "False")
    /\ sloppy \in Only("init_infant_brain_extraction_wf", BOOLEAN, FALSE)
    /\ skull_strip_template \in Only("init_infant_brain_extraction_wf",
                                     {"MNIInfant", "UNCInfant"}, "UNCInfant")
    /\ caller_specs \in Only("init_infant_brain_extraction_wf", SpecInputs,
                             [none |-> TRUE, dict |-> EmptyDict])
    /\ given_specs = caller_specs
    /\ template_specs = EmptyDict
    /\ aliased = FALSE
    /\ error = ""
    /\ use_aseg \in (IF wf \in SurfaceBuilders THEN BOOLEAN ELSE {FALSE})
    /\ use_mask \in Only("init_mcribs_surface_recon_wf", BOOLEAN, FALSE)
    /\ precomputed \in (IF wf \in SurfaceBuilders THEN PrecomputedInputs ELSE {NoPrecomputed})
    /\ bare = {}
    /\ call = 1 /\ prev_nodes = {} /\ prev_edges = <<>>
    /\ outs = <<>> /\ failed = {} /\ running = {}
    /\ node_inputs = {}
    /\ t1w2t2w_xfm \in Only("init_coregister_derivatives_wf",
                            SeqsUpTo(Transforms, MaxXfms) \ {<<>>}, <<>>)

Next ==
    \/ CoregCommon
    \/ CoregT1wMask
    \/ CoregProbmap
    \/ CoregPrecomp
    \/ DerivStart
    \/ DerivT1wMask
    \/ DerivT1wAseg
    \/ DerivT2wAseg
    \/ ConcatRegConnect
    \/ BexTemplateSpecs
    \/ BexGetTemplate
    \/ BexConnect
    \/ BexAffineInit
    \/ FormatArg
    \/ MidthicknessBuild
    \/ McribsCheck
    \/ McribsMask
    \/ McribsConnect
    \/ McribsFsnative
    \/ InfantfsStart
    \/ InfantfsConnect
    \/ InfantfsFsnative
    \/ CallAgain
    \/ RunNode
    \/ StartNode
    \/ FinishNode

Spec == Init /\ [][Next]_vars

(***************************************************************************)
(* Properties                                                              *)
(***************************************************************************)
Built(w) == wf = w /\ pc = "done"

\* indices of the edges that arrive at input port p of node n
Producers(n, p) == {i \in 1..Len(edges) : Dst(edges[i]) = n /\ DstPort(edges[i]) = p}

\* fields of outputnode that some edge drives
Driven == {DstPort(edges[i]) : i \in {j \in 1..Len(edges) : Dst(edges[j]) = "outputnode"}}

MaskBranchNodes ==
    [t1w_mask |-> {"t2w_masker"},
     probmap |-> {"map_mask", "thr_mask"},
     precomp |-> {"map_precomp_mask"}]
MaskBranches == {"t1w_mask", "probmap", "precomp"}

\* C1: the graph init_coregistration_wf returns holds all the nodes of exactly
\* one of the three mask branches and no node of the other two.
C1_ExactlyOneMaskBranch ==
    Built("init_coregistration_wf") =>
        /\ Cardinality({b \in MaskBranches : MaskBranchNodes[b] \subseteq nodes}) = 1
        /\ \A b \in MaskBranches :
             MaskBranchNodes[b] \subseteq nodes \/ MaskBranchNodes[b] \cap nodes = {}

C1_Witness ==
    /\ Built("init_coregistration_wf")
    /\ ~t1w_mask /\ probmap
    /\ {"map_mask", "thr_mask"} \subseteq nodes
    /\ nodes \cap {"t2w_masker", "map_precomp_mask"} = {}

\* C2: the mask branch is chosen in the order t1w_mask, then probmap, then the
\* fallback: t1w_mask selects t2w_masker whatever probmap is, probmap alone
\* selects map_mask/thr_mask, neither selects map_precomp_mask, and the
\* fallback leaves no declared output port without a producing edge.
C2_BranchPriority ==
    Built("init_coregistration_wf") =>
        /\ t1w_mask => "t2w_masker" \in nodes /\ "map_mask" \notin nodes
        /\ (~t1w_mask /\ probmap) => {"map_mask", "thr_mask"} \subseteq nodes
        /\ (~t1w_mask /\ ~probmap) =>
             /\ "map_precomp_mask" \in nodes
             /\ \A f \in outputnode : Producers("outputnode", f) # {}

C2_Witness ==
    /\ Built("init_coregistration_wf")
    /\ t1w_mask /\ probmap
    /\ "t2w_masker" \in nodes

\* C3: each of the six output ports declared on the outputnode of
\* init_coregistration_wf has exactly one producing edge in the returned graph.
C3_OutputsDrivenOnce ==
    Built("init_coregistration_wf") =>
        /\ outputnode = {"t1w_preproc", "t1w_brain", "t1w_mask",
                         "t1w2t2w_xfm", "t2w2t1w_xfm", "t2w_preproc"}
        /\ \A f \in outputnode : Cardinality(Producers("outputnode", f)) = 1

C3_Witness ==
    /\ Built("init_coregistration_wf")
    /\ t1w_mask
    /\ \E i \in 1..Len(edges) : edges[i] = <<"inputnode", "in_mask", "outputnode", "t1w_mask">>

GraphBuilders ==
    {"init_coregistration_wf", "init_coregister_derivatives_wf",
     "init_concat_registrations_wf", "init_infant_brain_extraction_wf"}

\* C4: in the graphs of the four builders no (node, input port) pair is the
\* destination of two edges, at any point of the assembly.
C4_InputDrivenAtMostOnce ==
    wf \in GraphBuilders =>
        \A i, j \in 1..Len(edges) :
            (Dst(edges[i]) = Dst(edges[j]) /\ DstPort(edges[i]) = DstPort(edges[j])) => i = j

\* an output port that fans out to several input ports, in a finished graph
C4_Witness ==
    /\ Built("init_coregister_derivatives_wf")
    /\ t1w_aseg /\ t2w_aseg
    /\ \E i, j \in 1..Len(edges) :
         /\ i # j
         /\ Src(edges[i]) = Src(edges[j]) /\ SrcPort(edges[i]) = SrcPort(edges[j])
         /\ Dst(edges[i]) # Dst(edges[j])

BoolToNat(b) == IF b THEN 1 ELSE 0

\* C5: in init_coregister_derivatives_wf each branch node exists iff its flag
\* is set, each instantiated branch drives its own output port (t2w_mask,
\* t2w_aseg, t1w_aseg), and an output port has one producing edge when its
\* branch was instantiated and none otherwise.
C5_AdditiveBranches ==
    Built("init_coregister_derivatives_wf") =>
        /\ "t1wmask2t2w" \in nodes <=> t1w_mask
        /\ "t1waseg2t2w" \in nodes <=> t1w_aseg
        /\ "t2waseg2t1w" \in nodes <=> t2w_aseg
        /\ Cardinality(nodes \cap {"t1wmask2t2w", "t1waseg2t2w", "t2waseg2t1w"})
             = BoolToNat(t1w_mask) + BoolToNat(t1w_aseg) + BoolToNat(t2w_aseg)
        /\ Cardinality(Producers("outputnode", "t2w_mask")) = BoolToNat(t1w_mask)
        /\ Cardinality(Producers("outputnode", "t2w_aseg")) = BoolToNat(t1w_aseg)
        /\ Cardinality(Producers("outputnode", "t1w_aseg")) = BoolToNat(t2w_aseg)
        /\ \A i \in Producers("outputnode", "t2w_mask") : Src(edges[i]) = "t1wmask2t2w"
        /\ \A i \in Producers("outputnode", "t2w_aseg") : Src(edges[i]) = "t1waseg2t2w"
        /\ \A i \in Producers("outputnode", "t1w_aseg") : Src(edges[i]) = "t2waseg2t1w"

C5_Witness ==
    /\ Built("init_coregister_derivatives_wf")
    /\ t1w_mask /\ ~t1w_aseg /\ t2w_aseg
    /\ nodes \cap {"t1wmask2t2w", "t1waseg2t2w", "t2waseg2t1w"} = {"t1wmask2t2w", "t2waseg2t1w"}

\* C6 as claimed: the output ports declared on the outputnode of
\* init_coregister_derivatives_wf are exactly the ports driven by instantiated
\* branches.
C6_DeclaredEqualsDriven ==
    Built("init_coregister_derivatives_wf") => outputnode = Driven

\* C6: the outputnode of init_coregister_derivatives_wf declares t2w_mask,
\* t1w_aseg and t2w_aseg for every flag combination; the driven ports are
\* those of the instantiated branches, so the port of a branch that was not
\* instantiated stays declared and has no producing edge, and the declared
\* set equals the driven set only when all three flags are set.
C6_DeclaredAlwaysDrivenByFlag ==
    Built("init_coregister_derivatives_wf") =>
        /\ outputnode = {"t2w_mask", "t1w_aseg", "t2w_aseg"}
        /\ Driven \subseteq outputnode
        /\ (outputnode = Driven) <=> (t1w_mask /\ t1w_aseg /\ t2w_aseg)
        /\ \A f \in outputnode \ Driven : Producers("outputnode", f) = {}

C6_Witness ==
    /\ Built("init_coregister_derivatives_wf")
    /\ ~t1w_mask /\ t1w_aseg /\ ~t2w_aseg
    /\ "t2w_mask" \in outputnode
    /\ Driven = {"t2w_aseg"}

Formatted == wf = "ConcatXFM" /\ pc = "done"

\* C7 as claimed: the arity error is raised whenever a flag list is supplied
\* and its length differs from the number of transforms, and never when the
\* lengths are equal.
C7_RaisesWheneverLengthsDiffer ==
    Formatted =>
        /\ (invert_transform_flags.defined
              /\ Len(invert_transform_flags.value) # Len(transforms)) => raised
        /\ (invert_transform_flags.defined
              /\ Len(invert_transform_flags.value) = Len(transforms)) => ~raised

\* C7: the arity error is raised, and no transform argument produced, exactly
\* when a non-empty flag list is supplied whose length differs from the number
\* of transforms (2 transforms with 1 flag in particular); an empty flag list
\* counts as absent; equal lengths never raise.
C7_RaisesIffNonEmptyAndLengthsDiffer ==
    Formatted =>
        /\ raised <=> /\ invert_transform_flags.defined
                      /\ Len(invert_transform_flags.value) > 0
                      /\ Len(invert_transform_flags.value) # Len(transforms)
        /\ raised => retval = <<>>

C7_Witness ==
    /\ Formatted
    /\ Len(transforms) = 2
    /\ invert_transform_flags.defined /\ Len(invert_transform_flags.value) = 1
    /\ raised

AllFalse(n) == [i \in 1..n |-> FALSE]

\* C8: with no invert_transform_flags every transform is emitted uninverted,
\* and the argument is the one an explicit all-False flag list of the same
\* length gives.
C8_AbsentFlagsMeanNoInversion ==
    (Formatted /\ ~invert_transform_flags.defined) =>
        /\ ~raised
        /\ LET explicit == [defined |-> TRUE, value |-> AllFalse(Len(transforms))]
           IN retval = GetTransformFilenames(transforms, explicit).retval
        /\ LET es == ParseTransformArgs(retval)
           IN /\ Len(es) = Len(transforms)
              /\ \A i \in 1..Len(es) : ~es[i].invert

C8_Witness ==
    /\ Formatted
    /\ ~invert_transform_flags.defined
    /\ Len(transforms) = 2
    /\ retval = <<"--transform", transforms[1], "--transform", transforms[2]>>

\* the flag the i-th transform is emitted with
EffectiveFlags ==
    IF NotFlags(invert_transform_flags)
    THEN AllFalse(Len(transforms))
    ELSE invert_transform_flags.value

\* C9: the argument holds one entry per transform, in declaration order, the
\* i-th entry carrying the i-th transform and the i-th flag; the tool applies
\* the entries last first, so [A, B] without flags is B then A, uninverted.
C9_OneEntryPerTransformInOrder ==
    (Formatted /\ ~raised) =>
        LET es == ParseTransformArgs(retval)
        IN /\ Len(es) = Len(transforms)
           /\ \A i \in 1..Len(es) :
                /\ es[i].transform = transforms[i]
                /\ es[i].invert = EffectiveFlags[i]
           /\ (Len(transforms) = 2 /\ ~invert_transform_flags.defined) =>
                AppliedOrder(es) = <<[transform |-> transforms[2], invert |-> FALSE],
                                     [transform |-> transforms[1], invert |-> FALSE]>>

C9_Witness ==
    /\ Formatted /\ ~raised
    /\ transforms = <<"xfm1.h5", "xfm0.h5">>
    /\ ~invert_transform_flags.defined
    /\ AppliedOrder(ParseTransformArgs(retval))[1].transform = "xfm0.h5"

\* C10: for the same transforms, a flag list that differs at some index from
\* the one supplied gives a different argument; [True, False] and
\* [False, True] in particular.
C10_FlagsAreNotOrderInvariant ==
    (Formatted /\ ~raised /\ Len(transforms) >= 1) =>
        /\ \A g \in [1..Len(transforms) -> BOOLEAN] :
             g # EffectiveFlags =>
                LET other == GetTransformFilenames(transforms, [defined |-> TRUE, value |-> g])
                IN ~other.raised /\ other.retval # retval
        /\ (Len(transforms) = 2 /\ EffectiveFlags = <<TRUE, FALSE>>) =>
             retval # GetTransformFilenames(transforms,
                          [defined |-> TRUE, value |-> <<FALSE, TRUE>>]).retval

C10_Witness ==
    /\ Formatted /\ ~raised
    /\ transforms = <<"xfm0.h5", "xfm1.h5">>
    /\ invert_transform_flags = [defined |-> TRUE, value |-> <<TRUE, FALSE>>]
    /\ retval = <<"--transform", "[", "xfm0.h5,", "1", "]", "--transform", "xfm1.h5">>

(***************************************************************************)
(* C15: a builder that raises on a precondition has created no node and no *)
(* edge: init_infant_brain_extraction_wf raises KeyError when the given    *)
(* template_specs holds no cohort and age_months is None, and RuntimeError *)
(* when no T1w template is found; init_mcribs_surface_recon_wf raises      *)
(* NotImplementedError when use_aseg is False.                             *)
(***************************************************************************)
NoCohortGiven == given_specs.none \/ "cohort" \notin DOMAIN given_specs.dict

GraphEmpty == nodes = {} /\ edges = <<>> /\ inputnode = {} /\ outputnode = {}

C15_RaisedBeforeAnyNode ==
    /\ (pc = "raised" \/ error # "") => pc = "raised" /\ error # "" /\ GraphEmpty
    /\ (wf = "init_mcribs_surface_recon_wf" /\ ~use_aseg /\ pc # "start")
           => pc = "raised" /\ error = "NotImplementedError"
    /\ (wf = "init_infant_brain_extraction_wf" /\ NoCohortGiven
            /\ age_months = <<>> /\ pc # "start")
           => pc = "raised" /\ error = "KeyError"
    /\ error = "RuntimeError"
           => wf = "init_infant_brain_extraction_wf" /\ ~(NoCohortGiven /\ age_months = <<>>)

C15_Witness ==
    /\ wf = "init_mcribs_surface_recon_wf" /\ ~use_aseg
    /\ pc = "raised" /\ error = "NotImplementedError"

C17_CallerSpecsUntouched ==
    wf = "init_infant_brain_extraction_wf" => caller_specs = given_specs

(***************************************************************************)
(* C18: in the graph of init_mcribs_surface_recon_wf every edge at         *)
(* inputnode or outputnode names a declared field, and the dotted names    *)
(* inputnode.X and outputnode.X are ports of the embedded midthickness     *)
(* workflow only, X being a field it declares.                             *)
(***************************************************************************)
\* the port names written inputnode.X or outputnode.X in surfaces.py
DottedPorts ==
    {"inputnode.subject_id", "inputnode.white", "inputnode.graymid",
     "outputnode.subjects_dir", "outputnode.subject_id"}

\* the ports init_midthickness_wf offers to its parent
MidthicknessInPorts == {"inputnode.white", "inputnode.graymid"}
MidthicknessOutPorts == {"outputnode.subject_id", "outputnode.subjects_dir"}

PortsDeclared(e) ==
    /\ Src(e) = "inputnode" => SrcPort(e) \in inputnode
    /\ Dst(e) = "outputnode" => DstPort(e) \in outputnode
    /\ Src(e) = "make_midthickness_wf" => SrcPort(e) \in MidthicknessOutPorts
    /\ Dst(e) = "make_midthickness_wf" => DstPort(e) \in MidthicknessInPorts
    /\ SrcPort(e) \in DottedPorts => Src(e) = "make_midthickness_wf"
    /\ DstPort(e) \in DottedPorts => Dst(e) = "make_midthickness_wf"

C18_McribsPortsDeclared ==
    wf = "init_mcribs_surface_recon_wf" => \A e \in Range(edges) : PortsDeclared(e)

(***************************************************************************)
(* C19: the graph init_midthickness_wf returns holds inputnode, with the   *)
(* fields white and graymid, and outputnode, with the fields subject_id    *)
(* and subjects_dir, and both are nodes (pe.Node) of the graph.            *)
(***************************************************************************)
C19_MidthicknessInOutAreNodes ==
    (wf = "init_midthickness_wf" /\ pc = "done")
        => /\ {"inputnode", "outputnode"} \subseteq nodes \ bare
           /\ inputnode = {"white", "graymid"}
           /\ outputnode = {"subject_id", "subjects_dir"}

(***************************************************************************)
(* C20: both surface builders embed the midthickness workflow by the same  *)
(* four edges: fssource.white and fssource.graymid into inputnode.white    *)
(* and inputnode.graymid, outputnode.subjects_dir and outputnode.subject_id*)
(* into the parent's outputs of the same names; no other edge touches it.  *)
(***************************************************************************)
Touching(n) == {e \in Range(edges) : Src(e) = n \/ Dst(e) = n}

MidthicknessEmbedding ==
    {<<"fssource", "white", "make_midthickness_wf", "inputnode.white">>,
     <<"fssource", "graymid", "make_midthickness_wf", "inputnode.graymid">>,
     <<"make_midthickness_wf", "outputnode.subjects_dir", "outputnode", "subjects_dir">>,
     <<"make_midthickness_wf", "outputnode.subject_id", "outputnode", "subject_id">>}

RunFinished ==
    /\ wf = "init_concat_registrations_wf" /\ pc = "done"
    /\ ~\E n \in nodes : Ready(n)

AlignedOutputs(o) ==
    /\ \A p \in ConcatRegOutputFields :
           p \in DOMAIN o /\ Len(ensure_list(o[p])) = Len(templates)
    /\ \A i \in 1..Len(templates) :
        /\ o.template.items[i] = templates[i]
        /\ o.anat2std_xfm.items[i].transforms[1].to = templates[i]
        /\ o.std2anat_xfm.items[i].transforms[1].from = templates[i]

C11_OneAlignedTriplePerTemplate ==
    (RunFinished /\ Len(templates) >= 1)
        => "outputnode" \in DOMAIN outs /\ AlignedOutputs(outs["outputnode"])

(***************************************************************************)
(* C12: with N >= 1 templates and single artifacts on anat2std_xfm,        *)
(* std2anat_xfm and anat_preproc, every MapNode of                         *)
(* init_concat_registrations_wf whose inputs have arrived sees lists of    *)
(* length N on all of its iterfields, and none fails on a length mismatch. *)
(***************************************************************************)
C12_IterfieldsSameLength ==
    (wf = "init_concat_registrations_wf" /\ Len(templates) >= 1)
        => /\ failed = {}
           /\ \A n \in MapNodes \cap nodes :
                  (pc = "done" /\ Feeders(n) \subseteq DOMAIN outs)
                      => IterLengths(n) = {Len(templates)}

(***************************************************************************)
(* C13: merge_anat2std is fed int2std_xfm on in1 and the incoming          *)
(* anat2std_xfm on in2, and every transforms list concat_anat2std is       *)
(* handed, read last to first, is the chain native -> intermediate ->      *)
(* template i: first the incoming anat2std_xfm, then int2std_xfm, the      *)
(* target of the first being the source of the second.                     *)
(***************************************************************************)
Chain(applied, first, last) ==
    /\ Len(applied) = 2
    /\ applied[1].from = first
    /\ applied[1].to = applied[2].from
    /\ applied[2].to = last

C13_Anat2StdChain ==
    (wf = "init_concat_registrations_wf" /\ pc = "done")
        => /\ <<"intermed_xfms", "int2std_xfm", "merge_anat2std", "in1">> \in Range(edges)
           /\ <<"inputnode", "anat2std_xfm", "merge_anat2std", "in2">> \in Range(edges)
           /\ "merge_anat2std" \in DOMAIN outs =>
                LET lists == ensure_list(Input("concat_anat2std", "transforms"))
                IN /\ Len(lists) = Len(templates)
                   /\ \A i \in DOMAIN lists :
                        LET applied == AppliedOrder(lists[i])
                        IN /\ Chain(applied, "anat", templates[i])
                           /\ applied[1] = Value(ConcatRegInputs.anat2std_xfm)
                           /\ applied[2] = Xfm(Intmed(Intermediate), templates[i])

C13_Witness ==
    /\ wf = "init_concat_registrations_wf" /\ pc = "done"
    /\ "concat_anat2std" \in DOMAIN outs
    /\ templates = <<"MNIPediatricAsym:cohort-4">>

(***************************************************************************)
(* C14: every transforms list concat_std2anat is handed, read last to      *)
(* first, is the chain template i -> intermediate -> native: first         *)
(* std2int_xfm, then the incoming std2anat_xfm, the target of the first    *)
(* being the source of the second.                                         *)
(***************************************************************************)
C14_Std2AnatChain ==
    (wf = "init_concat_registrations_wf" /\ pc = "done"
        /\ "merge_std2anat" \in DOMAIN outs)
        => LET lists == ensure_list(Input("concat_std2anat", "transforms"))
           IN \A i \in DOMAIN lists :
                LET applied == AppliedOrder(lists[i])
                IN /\ Chain(applied, templates[i], "anat")
                   /\ applied[2] = Value(ConcatRegInputs.std2anat_xfm)


(***************************************************************************)
(* C21: in the graph init_coregistration_wf builds for t1w_mask = False,   *)
(* probmap = True, map_mask feeds thr_mask directly and coreg feeds        *)
(* map_mask, and in every run thr_mask has not started before map_mask has *)
(* finished, nor map_mask before coreg has finished.                       *)
(***************************************************************************)
Started(n) == n \in running \/ n \in DOMAIN outs
Finished(n) == n \in DOMAIN outs

C21_ThrAfterMapAfterCoreg ==
    (wf = "init_coregistration_wf" /\ pc = "done" /\ ~t1w_mask /\ probmap)
        => /\ "map_mask" \in Feeders("thr_mask")
           /\ "coreg" \in Feeders("map_mask")
           /\ Started("thr_mask") => Finished("map_mask")
           /\ Started("map_mask") => Finished("coreg")

C21_Witness ==
    /\ wf = "init_coregistration_wf" /\ pc = "done" /\ ~t1w_mask /\ probmap
    /\ "thr_mask" \in running
    /\ Finished("map_mask") /\ Finished("coreg")


(***************************************************************************)
(* C22: in the graphs of both surface builders the nodes fsnative2anat_xfm *)
(* and anat2fsnative_xfm exist iff 'fsnative' is not a key of              *)
(* precomputed['transforms'] (no 'transforms' key: not precomputed); the   *)
(* outputs fsnative2anat_xfm and anat2fsnative_xfm have one producing edge *)
(* each when they exist and none otherwise; subjects_dir and subject_id    *)
(* have one producing edge in every graph.                                 *)
(***************************************************************************)
FsnativePrecomputed == precomputed.has_transforms /\ "fsnative" \in precomputed.transforms

FsnativeNodes == {"fsnative2anat_xfm", "anat2fsnative_xfm"}

C23_AffineInitAdditive ==
    Built("init_infant_brain_extraction_wf")
        => /\ "init_aff" \in nodes <=> ants_affine_init \in {"True", "random", "search"}
           /\ Cardinality(Producers("norm", "initial_moving_transform"))
                = BoolToNat(ants_affine_init \in {"True", "random", "search"})
           /\ \A f \in {"t2w_preproc", "t2w_brain", "out_mask", "out_probmap"} :
                  Cardinality(Producers("outputnode", f)) = 1

C23_Witness ==
    /\ Built("init_infant_brain_extraction_wf")
    /\ ants_affine_init = "search"
    /\ Producers("norm", "initial_moving_transform") # {}

(***************************************************************************)
(* C25: in every branch of init_coregistration_wf reg_mask.in_file,        *)
(* refine_mask.in_file and apply_mask.in_mask have exactly one inbound     *)
(* edge each, from t2w_masker / inputnode.in_mask with t1w_mask, from      *)
(* inputnode.in_mask / thr_mask with probmap, from inputnode.in_mask /     *)
(* map_precomp_mask in the fallback; final_n4.weight_image has an inbound  *)
(* edge iff t1w_mask is False.                                             *)
(***************************************************************************)
\* the (node, port) pairs that feed input port p of node n
Sources(n, p) == {<<Src(edges[i]), SrcPort(edges[i])>> : i \in Producers(n, p)}

C25_SharedNodesFed ==
    Built("init_coregistration_wf")
        => /\ \A np \in {<<"reg_mask", "in_file">>, <<"refine_mask", "in_file">>,
                         <<"apply_mask", "in_mask">>} :
                  Cardinality(Producers(np[1], np[2])) = 1
           /\ Sources("reg_mask", "in_file") = Sources("refine_mask", "in_file")
           /\ Sources("reg_mask", "in_file")
                = IF t1w_mask THEN {<<"t2w_masker", "out_mask">>}
                  ELSE {<<"inputnode", "in_mask">>}
           /\ Sources("apply_mask", "in_mask")
                = IF t1w_mask THEN {<<"inputnode", "in_mask">>}
                  ELSE IF probmap THEN {<<"thr_mask", "out_mask">>}
                  ELSE {<<"map_precomp_mask", "output_image">>}
           /\ Cardinality(Producers("final_n4", "weight_image")) = BoolToNat(~t1w_mask)

C25_Witness ==
    /\ Built("init_coregistration_wf")
    /\ ~t1w_mask /\ ~probmap
    /\ Sources("final_n4", "weight_image") = {<<"map_precomp_mask", "output_image">>}


(***************************************************************************)
(* C24: every graph returned by init_coregistration_wf,                    *)
(* init_coregister_derivatives_wf and init_infant_brain_extraction_wf has  *)
(* a topological order of its nodes: taking away, again and again, the     *)
(* nodes that no remaining node feeds leaves no node.  No edge arrives at  *)
(* inputnode and none leaves outputnode.                                   *)
(***************************************************************************)
RECURSIVE Unordered(_)
\* the nodes of rem that no topological order can place
Unordered(rem) ==
    LET first == {n \in rem : Feeders(n) \cap rem = {}}
    IN IF first = {} THEN rem ELSE Unordered(rem \ first)

C24_Acyclic ==
    (wf \in {"init_coregistration_wf", "init_coregister_derivatives_wf",
             "init_infant_brain_extraction_wf"} /\ pc = "done")
        => /\ Unordered(nodes) = {}
           /\ InEdges("inputnode") = {}
           /\ OutEdges("outputnode") = {}
           /\ \A e \in Range(edges) : Src(e) # Dst(e)

C24_Witness ==
    /\ Built("init_infant_brain_extraction_wf")
    /\ "init_aff" \in nodes
    /\ Unordered(nodes) = {}
    /\ \E e \in Range(edges) : Src(e) # "inputnode" /\ Dst(e) # "outputnode"


(***************************************************************************)
(* C26: in the graph of init_coregister_derivatives_wf with t2w_aseg the   *)
(* node t2waseg2t1w has its invert flags set to [True, False] by the       *)
(* builder and takes its transforms from inputnode.t1w2t2w_xfm, and the    *)
(* flag list is as long as the transform list it receives, whatever        *)
(* t1w2t2w_xfm holds; the nodes of the t1w_mask and t1w_aseg branches have *)
(* no invert flags set.                                                    *)
(***************************************************************************)
\* the invert flag lists the builder set on node n
InvertFlagsOf(n) == {x[3] : x \in {y \in node_inputs :
                                       y[1] = n /\ y[2] = "invert_transform_flags"}}

\* the transforms node n is sent
TransformsOf(n) ==
    IF <<"inputnode", "t1w2t2w_xfm", n, "transforms">> \in Range(edges)
    THEN t1w2t2w_xfm
    ELSE <<>>

C26_FixedFlagsMatchTransforms ==
    Built("init_coregister_derivatives_wf")
        => /\ t2w_aseg =>
                /\ InvertFlagsOf("t2waseg2t1w") = {<<TRUE, FALSE>>}
                /\ TransformsOf("t2waseg2t1w") = t1w2t2w_xfm
                /\ \A fl \in InvertFlagsOf("t2waseg2t1w") :
                       Len(fl) = Len(TransformsOf("t2waseg2t1w"))
           /\ InvertFlagsOf("t1wmask2t2w") = {}
           /\ InvertFlagsOf("t1waseg2t2w") = {}

(***************************************************************************)
(* C27: ConcatXFM given a non-empty transforms list and the empty list as  *)
(* invert_transform_flags raises no arity error and emits the argument it  *)
(* emits without flags, every transform uninverted; an arity error comes   *)
(* only from a non-empty flag list whose length is not the number of       *)
(* transforms.                                                             *)
(***************************************************************************)
C27_EmptyFlagsAreAbsent ==
    Formatted =>
        /\ (invert_transform_flags = [defined |-> TRUE, value |-> <<>>]
                /\ Len(transforms) >= 1)
             => /\ ~raised
                /\ retval = GetTransformFilenames(transforms, NoFlags).retval
                /\ LET es == ParseTransformArgs(retval)
                   IN /\ Len(es) = Len(transforms)
                      /\ \A i \in 1..Len(es) :
                            es[i] = [transform |-> transforms[i], invert |-> FALSE]
        /\ raised => /\ invert_transform_flags.defined
                     /\ Len(invert_transform_flags.value) >= 1
                     /\ Len(invert_transform_flags.value) # Len(transforms)

C27_Witness ==
    /\ Formatted
    /\ invert_transform_flags = [defined |-> TRUE, value |-> <<>>]
    /\ transforms = <<"xfm0.h5", "xfm1.h5">>
    /\ ~raised
    /\ retval = <<"--transform", "xfm0.h5", "--transform", "xfm1.h5">>

====
